---------------------------- MODULE Spec2Model ----------------------------
(* SUTT API gateway (src/main.py, src/schemas.py): registration, login,    *)
(* bearer-token resolution and the protected endpoints, over the document  *)
(* store.  Each request handler is one action; a handler that reads the    *)
(* store and later writes it is split at the point where other requests    *)
(* can interleave (register: lookup / create; protected endpoints: the     *)
(* get_current_user dependency / the handler body).                        *)
(* Time is counted in ticks, TicksPerSecond to the second, because         *)
(* datetime.now() is finer than the whole-second "exp" a JWT carries.      *)
EXTENDS Integers, Sequences, FiniteSets, TLC

\* ------------------------------------------------------------- bounds
TicksPerSecond == 2
MaxSkew == 2
MaxUsers == 2
MaxDocs == 1

\* ------------------------------------------------------------- domains
Emails == {"ann@x.com", "bob@x.com"}
Passwords == {"pw123", "wrongpw"}
Keys == {"dev-secret", "other-secret"}
Workers == {"w1", "w2"}
DateLists == {<<>>, <<2, 1>>}
PlaceIds == {"p1", "p9"}
BadDigests == {"absent", "null", "garbage"}
NoSub == "<none>"

\* ------------------------------------------------------------- constants
JWT_SECRET == "dev-secret"
ACCESS_TOKEN_EXPIRE_MINUTES == 60 * 24
ExpireTicks == ACCESS_TOKEN_EXPIRE_MINUTES * 60 * TicksPerSecond
MaxNow == ExpireTicks + MaxSkew

VARIABLES
    users,        \* the "user" collection, in insertion order
    itinerary,    \* the "itinerary" collection
    cameraalert,  \* the "cameraalert" collection
    place,        \* the "place" collection (never written by this program)
    nextId,       \* the store's next _id
    now,          \* the clock, in ticks
    held,         \* the bearer token the client holds: login's latest, with its issue
                  \* time, and whether its subject's account has since been removed
    wk,           \* per worker: the request it is in the middle of
    resp          \* what the step just taken did and answered

vars == <<users, itinerary, cameraalert, place, nextId, now, held, wk, resp>>

\* ------------------------------------------------------------- bcrypt
\* A digest is the salt and what was hashed under it; fmt tells a digest bcrypt
\* can parse from a stored value it cannot.
hashpw(password, salt) == [fmt |-> "bcrypt", salt |-> salt, pw |-> password]

\* bcrypt.checkpw: re-hash under the digest's salt and compare; a value that is
\* no bcrypt digest raises ValueError("Invalid salt"), and None has no .encode().
checkpw(password, digest) ==
    IF digest.fmt = "bcrypt" THEN
        IF hashpw(password, digest.salt) = digest THEN "true" ELSE "false"
    ELSE "raise"

\* ------------------------------------------------------------- JWT
Sign(sub, exp, key) == [key |-> key, sub |-> sub, exp |-> exp]

NoToken ==
    [kind |-> "absent", sub |-> NoSub, exp |-> 0, sig |-> Sign(NoSub, 0, "")]

\* jwt.encode: a datetime "exp" is written as whole seconds since the epoch.
jwt_encode(sub, expTicks, key) ==
    LET exp == expTicks \div TicksPerSecond
    IN [kind |-> "jwt", sub |-> sub, exp |-> exp, sig |-> Sign(sub, exp, key)]

\* jwt.decode: the structure, then the signature, then the exp claim, which has
\* passed once exp <= now (no leeway is given).
jwt_decode(token, key, nowTicks) ==
    IF token.kind # "jwt" THEN "DecodeError"
    ELSE IF token.sig # Sign(token.sub, token.exp, key) THEN "InvalidSignatureError"
    ELSE IF token.exp * TicksPerSecond <= nowTicks THEN "ExpiredSignatureError"
    ELSE "ok"

create_access_token(sub) == jwt_encode(sub, now + ExpireTicks, JWT_SECRET)

\* ------------------------------------------------------------- store
\* get_documents(collection, {"email": email}, limit): the matching documents in
\* store order, at most limit of them.
get_documents(coll, email, limit) ==
    LET hits == SelectSeq(coll, LAMBDA d : d.email = email)
    IN IF Len(hits) > limit THEN SubSeq(hits, 1, limit) ELSE hits

\* create_document(collection, data): append under a fresh _id.
create_document(coll, doc) == Append(coll, doc)

\* ------------------------------------------------------------- responses
Resp(op, step, status, detail, email, password, token, uid) ==
    [op |-> op, step |-> step, status |-> status, detail |-> detail,
     email |-> email, password |-> password, token |-> token, user_id |-> uid]

Idle == [op |-> "idle", email |-> "", password |-> "", user_id |-> 0]

NoHeld == [tok |-> NoToken, at |-> 0, gone |-> FALSE]

\* ------------------------------------------------------------- get_current_user
\* get_current_user with "except jwt.InvalidTokenError" placed first:
\* ExpiredSignatureError is a subclass of it, so an expired token is answered
\* "Invalid token".
get_current_user_ExceptOrder(token) ==
    LET d == jwt_decode(token, JWT_SECRET, now)
        docs == get_documents(users, token.sub, 1)
    IN IF token.kind = "absent" THEN
            [status |-> 401, detail |-> "Not authenticated", user_id |-> 0, email |-> ""]
       ELSE IF d # "ok" THEN
            [status |-> 401, detail |-> "Invalid token", user_id |-> 0, email |-> ""]
       ELSE IF token.sub = NoSub THEN
            [status |-> 401, detail |-> "Invalid token", user_id |-> 0, email |-> ""]
       ELSE IF docs = <<>> THEN
            [status |-> 401, detail |-> "User not found", user_id |-> 0, email |-> ""]
       ELSE [status |-> 200, detail |-> "", user_id |-> docs[1].id,
             email |-> docs[1].email]

\* get_current_user decoding without verifying the signature against JWT_SECRET
\* (the token's own key is taken).
get_current_user_NoVerify(token) ==
    LET d == jwt_decode(token, token.sig.key, now)
        docs == get_documents(users, token.sub, 1)
    IN IF token.kind = "absent" THEN
            [status |-> 401, detail |-> "Not authenticated", user_id |-> 0, email |-> ""]
       ELSE IF d = "ExpiredSignatureError" THEN
            [status |-> 401, detail |-> "Token expired", user_id |-> 0, email |-> ""]
       ELSE IF d # "ok" THEN
            [status |-> 401, detail |-> "Invalid token", user_id |-> 0, email |-> ""]
       ELSE IF token.sub = NoSub THEN
            [status |-> 401, detail |-> "Invalid token", user_id |-> 0, email |-> ""]
       ELSE IF docs = <<>> THEN
            [status |-> 401, detail |-> "User not found", user_id |-> 0, email |-> ""]
       ELSE [status |-> 200, detail |-> "", user_id |-> docs[1].id,
             email |-> docs[1].email]

\* get_current_user building the User from the token's claims, without the
\* lookup in the user collection.
get_current_user_NoLookup(token) ==
    LET d == jwt_decode(token, JWT_SECRET, now)
    IN IF token.kind = "absent" THEN
            [status |-> 401, detail |-> "Not authenticated", user_id |-> 0, email |-> ""]
       ELSE IF d = "ExpiredSignatureError" THEN
            [status |-> 401, detail |-> "Token expired", user_id |-> 0, email |-> ""]
       ELSE IF d # "ok" THEN
            [status |-> 401, detail |-> "Invalid token", user_id |-> 0, email |-> ""]
       ELSE IF token.sub = NoSub THEN
            [status |-> 401, detail |-> "Invalid token", user_id |-> 0, email |-> ""]
       ELSE [status |-> 200, detail |-> "", user_id |-> 0, email |-> token.sub]

\* oauth2_scheme (no Authorization header: 401 before get_current_user runs), then
\* get_current_user: decode, the sub claim, the user lookup.
get_current_user(token) ==
    LET d == jwt_decode(token, JWT_SECRET, now)
        docs == get_documents(users, token.sub, 1)
    IN IF token.kind = "absent" THEN
            [status |-> 401, detail |-> "Not authenticated", user_id |-> 0, email |-> ""]
       ELSE IF d = "ExpiredSignatureError" THEN
            [status |-> 401, detail |-> "Token expired", user_id |-> 0, email |-> ""]
       ELSE IF d # "ok" THEN
            [status |-> 401, detail |-> "Invalid token", user_id |-> 0, email |-> ""]
       ELSE IF token.sub = NoSub THEN
            [status |-> 401, detail |-> "Invalid token", user_id |-> 0, email |-> ""]
       ELSE IF docs = <<>> THEN
            [status |-> 401, detail |-> "User not found", user_id |-> 0, email |-> ""]
       ELSE [status |-> 200, detail |-> "", user_id |-> docs[1].id,
             email |-> docs[1].email]

\* What a client can put in the Authorization header: nothing, the token it
\* holds, that token altered (another subject, a later exp, cut short, signed
\* with a key that is not the server's), and a token without a sub claim signed
\* at time 0 under either key (create_access_token takes any dict, and the
\* default secret is in the source).
Presentable ==
    LET t == held.tok
        fromHeld ==
            IF t.kind # "jwt" THEN {}
            ELSE {t, [t EXCEPT !.exp = t.exp + ACCESS_TOKEN_EXPIRE_MINUTES * 60],
                  [t EXCEPT !.kind = "malformed"]}
                 \cup {[t EXCEPT !.sub = e] : e \in Emails \ {t.sub}}
                 \cup {[t EXCEPT !.sig = Sign(t.sub, t.exp, k)] : k \in Keys \ {JWT_SECRET}}
    IN {NoToken} \cup fromHeld \cup {jwt_encode(NoSub, ExpireTicks, k) : k \in Keys}

Init ==
    /\ users = <<>>
    /\ itinerary = <<>>
    /\ cameraalert = <<>>
    /\ place = <<[id |-> "p1", rating |-> 4]>>
    /\ nextId = 1
    /\ now = 0
    /\ held = NoHeld
    /\ wk = [w \in Workers |-> Idle]
    /\ resp = Resp("init", "", 0, "", "", "", NoToken, 0)

\* ------------------------------------------------------------- register
\* register without the "if existing" test: every request goes on to create.
RegisterLookup_NoCheck(w, email, password) ==
    /\ wk[w] = Idle
    /\ wk' = [wk EXCEPT ![w] = [Idle EXCEPT !.op = "register",
                                !.email = email, !.password = password]]
    /\ resp' = Resp("register", "lookup", 0, "", email, "", NoToken, 0)
    /\ UNCHANGED <<users, itinerary, cameraalert, place, nextId, now, held>>

\* register, lines 76-78: the existence lookup.
RegisterLookup(w, email, password) ==
    /\ wk[w] = Idle
    /\ LET existing == get_documents(users, email, 1) IN
       IF existing # <<>> THEN
            /\ resp' = Resp("register", "lookup", 400, "Email already registered",
                            email, "", NoToken, 0)
            /\ UNCHANGED wk
       ELSE
            /\ wk' = [wk EXCEPT ![w] = [Idle EXCEPT !.op = "register",
                                        !.email = email, !.password = password]]
            /\ resp' = Resp("register", "lookup", 0, "", email, "", NoToken, 0)
    /\ UNCHANGED <<users, itinerary, cameraalert, place, nextId, now, held>>

\* register, lines 79-82: hash under a fresh salt, build the User,
\* create_document, answer.  bcrypt.gensalt() is a value never drawn before:
\* the store's counter stands for it.
RegisterCreate(w) ==
    /\ wk[w].op = "register"
    /\ nextId <= MaxUsers
    /\ LET user == [id |-> nextId, email |-> wk[w].email,
                    password_hash |-> hashpw(wk[w].password, nextId)]
       IN /\ users' = create_document(users, user)
          /\ resp' = Resp("register", "create", 200, "", wk[w].email, "", NoToken, nextId)
    /\ nextId' = nextId + 1
    /\ wk' = [wk EXCEPT ![w] = Idle]
    /\ UNCHANGED <<itinerary, cameraalert, place, now, held>>

\* ------------------------------------------------------------- login
\* login answering an unknown email with its own message.
Login_Enumerate(username, password) ==
    /\ LET docs == get_documents(users, username, 1) IN
       IF docs = <<>> THEN
            /\ resp' = Resp("login", "", 404, "User not found",
                            username, password, NoToken, 0)
            /\ UNCHANGED held
       ELSE LET doc == docs[1]
                ok == checkpw(password, doc.password_hash)
                access_token == create_access_token(doc.email)
            IN IF ok = "raise" THEN
                    /\ resp' = Resp("login", "", 500, "Internal Server Error",
                                    username, password, NoToken, 0)
                    /\ UNCHANGED held
               ELSE IF ok = "false" THEN
                    /\ resp' = Resp("login", "", 400, "Incorrect email or password",
                                    username, password, NoToken, 0)
                    /\ UNCHANGED held
               ELSE /\ resp' = Resp("login", "", 200, "", username, password,
                                    access_token, doc.id)
                    /\ held' = [tok |-> access_token, at |-> now, gone |-> FALSE]
    /\ UNCHANGED <<users, itinerary, cameraalert, place, nextId, now, wk>>

\* login keeping a session document in the user collection for each token.
Login_StoresToken(username, password) ==
    /\ LET docs == get_documents(users, username, 1) IN
       IF docs = <<>> THEN
            /\ resp' = Resp("login", "", 400, "Incorrect email or password",
                            username, password, NoToken, 0)
            /\ UNCHANGED <<held, users>>
       ELSE LET doc == docs[1]
                ok == checkpw(password, doc.password_hash)
                access_token == create_access_token(doc.email)
            IN IF ok = "raise" THEN
                    /\ resp' = Resp("login", "", 500, "Internal Server Error",
                                    username, password, NoToken, 0)
                    /\ UNCHANGED <<held, users>>
               ELSE IF ok = "false" THEN
                    /\ resp' = Resp("login", "", 400, "Incorrect email or password",
                                    username, password, NoToken, 0)
                    /\ UNCHANGED <<held, users>>
               ELSE /\ resp' = Resp("login", "", 200, "", username, password,
                                    access_token, doc.id)
                    /\ held' = [tok |-> access_token, at |-> now, gone |-> FALSE]
                    /\ users' = IF Len(users) < MaxUsers + 1
                                THEN create_document(users,
                                        [id |-> 0, email |-> "", password_hash |-> doc.password_hash])
                                ELSE users
    /\ UNCHANGED <<itinerary, cameraalert, place, nextId, now, wk>>

\* login, lines 86-94.  An exception out of checkpw is an unhandled 500.
Login(username, password) ==
    /\ LET docs == get_documents(users, username, 1) IN
       IF docs = <<>> THEN
            /\ resp' = Resp("login", "", 400, "Incorrect email or password",
                            username, password, NoToken, 0)
            /\ UNCHANGED held
       ELSE LET doc == docs[1]
                ok == checkpw(password, doc.password_hash)
                access_token == create_access_token(doc.email)
            IN IF ok = "raise" THEN
                    /\ resp' = Resp("login", "", 500, "Internal Server Error",
                                    username, password, NoToken, 0)
                    /\ UNCHANGED held
               ELSE IF ok = "false" THEN
                    /\ resp' = Resp("login", "", 400, "Incorrect email or password",
                                    username, password, NoToken, 0)
                    /\ UNCHANGED held
               ELSE /\ resp' = Resp("login", "", 200, "", username, password,
                                    access_token, doc.id)
                    /\ held' = [tok |-> access_token, at |-> now, gone |-> FALSE]
    /\ UNCHANGED <<users, itinerary, cameraalert, place, nextId, now, wk>>

\* ------------------------------------------------------------- protected endpoints
\* The dependency letting the request through to the handler body whatever
\* get_current_user answered.
Depends_FallThrough(w, token) ==
    /\ wk[w] = Idle
    /\ LET u == get_current_user(token) IN
       /\ resp' = Resp("get_current_user", "auth", u.status, u.detail, u.email, "",
                       token, u.user_id)
       /\ wk' = [wk EXCEPT ![w] = [Idle EXCEPT !.op = "authed", !.email = u.email,
                                   !.user_id = u.user_id]]
    /\ UNCHANGED <<users, itinerary, cameraalert, place, nextId, now, held>>

\* The get_current_user dependency of itinerary_generate, forecast_next7 and
\* vision_alerts: it runs before the handler body, and a failure ends the
\* request.  Which of the three handlers the request is for plays no part in
\* it, so the handler is told apart where its body starts.
Depends(w, token) ==
    /\ wk[w] = Idle
    /\ LET u == get_current_user(token) IN
       /\ resp' = Resp("get_current_user", "auth", u.status, u.detail, u.email, "",
                       token, u.user_id)
       /\ IF u.status = 200
          THEN wk' = [wk EXCEPT ![w] = [Idle EXCEPT !.op = "authed", !.email = u.email,
                                        !.user_id = u.user_id]]
          ELSE UNCHANGED wk
    /\ UNCHANGED <<users, itinerary, cameraalert, place, nextId, now, held>>

\* itinerary_generate, lines 101-116: the five best-rated places, min and max
\* of the dates (min of an empty list raises: an unhandled 500), the Itinerary,
\* create_document.  Every place of the model's store is selected, as there are
\* never more than five.
Min(s) == CHOOSE x \in {s[i] : i \in DOMAIN s} : \A j \in DOMAIN s : x <= s[j]
Max(s) == CHOOSE x \in {s[i] : i \in DOMAIN s} : \A j \in DOMAIN s : x >= s[j]

ItineraryBody(w, dates) ==
    /\ wk[w].op = "authed"
    /\ IF dates = <<>> THEN
            /\ resp' = Resp("itinerary", "body", 500, "Internal Server Error",
                            wk[w].email, "", NoToken, wk[w].user_id)
            /\ UNCHANGED itinerary
       ELSE /\ Len(itinerary) + Len(cameraalert) < MaxDocs
            /\ itinerary' = create_document(itinerary,
                    [user_id |-> wk[w].user_id,
                     places |-> [i \in DOMAIN place |-> place[i].id],
                     start_date |-> Min(dates), end_date |-> Max(dates),
                     score |-> 5 + Len(place)])
            /\ resp' = Resp("itinerary", "body", 200, "", wk[w].email, "", NoToken,
                            wk[w].user_id)
    /\ wk' = [wk EXCEPT ![w] = Idle]
    /\ UNCHANGED <<users, cameraalert, place, nextId, now, held>>

\* vision_alerts, lines 138-149.
VisionBody(w) ==
    /\ wk[w].op = "authed"
    /\ Len(itinerary) + Len(cameraalert) < MaxDocs
    /\ cameraalert' = create_document(cameraalert, [camera_id |-> "cam1"])
    /\ resp' = Resp("vision", "body", 200, "ok", wk[w].email, "", NoToken, wk[w].user_id)
    /\ wk' = [wk EXCEPT ![w] = Idle]
    /\ UNCHANGED <<users, itinerary, place, nextId, now, held>>

\* forecast_next7, lines 122-132: a read of the place collection; nothing is
\* written.
ForecastBody(w, place_id) ==
    /\ wk[w].op = "authed"
    /\ LET found == \E i \in DOMAIN place : place[i].id = place_id
       IN resp' = IF ~found
                  THEN Resp("forecast", "body", 404, "Place not found", wk[w].email, "",
                            NoToken, wk[w].user_id)
                  ELSE Resp("forecast", "body", 200, "", wk[w].email, "", NoToken,
                            wk[w].user_id)
    /\ wk' = [wk EXCEPT ![w] = Idle]
    /\ UNCHANGED <<users, itinerary, cameraalert, place, nextId, now, held>>

\* ------------------------------------------------------------- environment
\* The clock moves on by d ticks.
Tick(d) ==
    /\ now + d <= MaxNow
    /\ now' = now + d
    /\ resp' = Resp("tick", "", 0, "", "", "", NoToken, 0)
    /\ UNCHANGED <<users, itinerary, cameraalert, place, nextId, held, wk>>

\* An administrator removes a user record from the store.  held.gone notes
\* that the last record under the held token's subject went with it.
AdminDelete(i) ==
    /\ i \in DOMAIN users
    /\ users' = [j \in 1..(Len(users) - 1) |-> IF j < i THEN users[j] ELSE users[j + 1]]
    /\ resp' = Resp("admin_delete", "", 0, "", users[i].email, "", NoToken, users[i].id)
    /\ held' = IF /\ held.tok.kind = "jwt"
                  /\ users[i].email = held.tok.sub
                  /\ get_documents(users', held.tok.sub, 1) = <<>>
               THEN [held EXCEPT !.gone = TRUE]
               ELSE held
    /\ UNCHANGED <<itinerary, cameraalert, place, nextId, now, wk>>

\* ------------------------------------------------------------- specifications
\* The authentication core: register, login and token resolution with two
\* requests at a time, the clock moving by a whole token lifetime.
Next ==
    \/ \E w \in Workers, e \in Emails, p \in Passwords : RegisterLookup(w, e, p)
    \/ \E w \in Workers : RegisterCreate(w)
    \/ \E e \in Emails, p \in Passwords : Login(e, p)
    \/ \E w \in Workers, t \in Presentable : Depends(w, t)
    \/ \E w \in Workers, pid \in PlaceIds : ForecastBody(w, pid)
    \/ Tick(ExpireTicks)
    \/ \E i \in 1..MaxUsers : AdminDelete(i)

Spec == Init /\ [][Next]_vars

\* The whole gateway, every handler, for one account.
NextApi ==
    \/ \E w \in Workers : RegisterLookup(w, "ann@x.com", "pw123")
    \/ \E w \in Workers : RegisterCreate(w)
    \/ \E e \in Emails, p \in Passwords : Login(e, p)
    \/ \E w \in Workers, t \in Presentable : Depends(w, t)
    \/ \E w \in Workers, ds \in DateLists : ItineraryBody(w, ds)
    \/ \E w \in Workers : VisionBody(w)
    \/ \E w \in Workers, pid \in PlaceIds : ForecastBody(w, pid)
    \/ Tick(ExpireTicks)
    \/ \E i \in 1..MaxUsers : AdminDelete(i)

SpecApi == Init /\ [][NextApi]_vars

\* The clock at its real resolution, one request at a time: single ticks around
\* time 0 and around the end of a token lifetime, and one jump between the two.
NextClock ==
    \/ \E e \in Emails, p \in Passwords : RegisterLookup("w1", e, p)
    \/ RegisterCreate("w1")
    \/ \E e \in Emails, p \in Passwords : Login(e, p)
    \/ \E t \in Presentable : Depends("w1", t)
    \/ \E pid \in PlaceIds : ForecastBody("w1", pid)
    \/ (now < MaxSkew \/ now >= ExpireTicks - 1) /\ Tick(1)
    \/ Tick(ExpireTicks - 1)
    \/ \E i \in 1..MaxUsers : AdminDelete(i)

SpecClock == Init /\ [][NextClock]_vars

\* A store that already holds a user document whose password_hash is no bcrypt
\* digest: the field missing (doc.get's default ""), null, or another string.
InitLegacy ==
    /\ \E e \in Emails, f \in BadDigests :
          users = <<[id |-> 1, email |-> e,
                     password_hash |-> [fmt |-> f, salt |-> 0, pw |-> ""]]>>
    /\ itinerary = <<>>
    /\ cameraalert = <<>>
    /\ place = <<[id |-> "p1", rating |-> 4]>>
    /\ nextId = 2
    /\ now = 0
    /\ held = NoHeld
    /\ wk = [w \in Workers |-> Idle]
    /\ resp = Resp("init", "", 0, "", "", "", NoToken, 0)

SpecLegacy == InitLegacy /\ [][Next]_vars

\* ------------------------------------------------------------- properties
SigOK(t) == t.kind = "jwt" /\ t.sig = Sign(t.sub, t.exp, JWT_SECRET)
Expired(t) == t.exp * TicksPerSecond <= now
HasRecord(email) == \E i \in DOMAIN users : users[i].email = email
Resolving == resp.op = "get_current_user"
BadCredentials == resp.status = 400 /\ resp.detail = "Incorrect email or password"

\* C1: in every reachable state the user collection holds at most one record
\* per email, whatever the interleaving of register requests.
C1_UniqueEmail ==
    \A i, j \in DOMAIN users : users[i].email = users[j].email => i = j

\* C2: a register whose lookup runs while a record for its email is in the
\* store answers 400 "Email already registered", goes no further (no
\* create_document follows) and leaves the user collection as it was.
C2_DuplicateRegisterFails ==
    [][(resp'.op = "register" /\ resp'.step = "lookup" /\ HasRecord(resp'.email))
          => /\ resp'.status = 400
             /\ resp'.detail = "Email already registered"
             /\ UNCHANGED <<users, nextId, wk>>]_vars

C2_Witness ==
    /\ resp.op = "register"
    /\ resp.status = 400
    /\ HasRecord(resp.email)

\* C3 as stated: the held token, issued at held.at, is accepted at every time
\* before held.at + 24h while its subject has a record, and answered "Token
\* expired" at every time from held.at + 24h on.
C3_Original ==
    (Resolving /\ held.tok.kind = "jwt" /\ resp.token = held.tok) =>
        /\ (now < held.at + ExpireTicks /\ HasRecord(held.tok.sub)) => resp.status = 200
        /\ now >= held.at + ExpireTicks =>
                (resp.status = 401 /\ resp.detail = "Token expired")

\* C3 as amended: the window is 24h from the issue time cut to the whole
\* second.  Before its end the token is accepted while its subject has a
\* record; from its end on the answer is 401 "Token expired", never "Invalid
\* token", whether or not the record is still there.
C3_ExpiryWholeSeconds ==
    (Resolving /\ held.tok.kind = "jwt" /\ resp.token = held.tok) =>
        LET issuedAt == (held.at \div TicksPerSecond) * TicksPerSecond IN
        /\ (now < issuedAt + ExpireTicks /\ HasRecord(held.tok.sub)) => resp.status = 200
        /\ now >= issuedAt + ExpireTicks =>
                (resp.status = 401 /\ resp.detail = "Token expired")

C3_Witness ==
    /\ Resolving
    /\ held.tok.kind = "jwt"
    /\ resp.token = held.tok
    /\ resp.detail = "Token expired"
    /\ now < held.at + ExpireTicks
    /\ ~HasRecord(held.tok.sub)

\* C4 as stated: a presented token that is malformed, whose signature does not
\* verify under JWT_SECRET, or that carries no sub claim is answered 401
\* "Invalid token".
C4_Original ==
    (Resolving /\ resp.token.kind # "absent"
               /\ (~SigOK(resp.token) \/ resp.token.sub = NoSub))
        => (resp.status = 401 /\ resp.detail = "Invalid token")

\* C4 as amended: an identity is resolved only from a token whose signature
\* verifies under JWT_SECRET and that carries a sub; a malformed token or one
\* whose signature does not verify is answered 401 "Invalid token"; a correctly
\* signed token without a sub is answered "Invalid token" before its exp and
\* "Token expired" from its exp on.
C4_BadTokensRejected ==
    (Resolving /\ resp.token.kind # "absent") =>
        /\ ~SigOK(resp.token) => (resp.status = 401 /\ resp.detail = "Invalid token")
        /\ (SigOK(resp.token) /\ resp.token.sub = NoSub) =>
                /\ resp.status = 401
                /\ resp.detail = IF Expired(resp.token) THEN "Token expired"
                                                         ELSE "Invalid token"
        /\ resp.status = 200 => (SigOK(resp.token) /\ resp.token.sub # NoSub)

C4_Witness ==
    /\ Resolving
    /\ resp.token.kind = "jwt"
    /\ ~SigOK(resp.token)
    /\ HasRecord(resp.token.sub)
    /\ resp.detail = "Invalid token"

\* C5: a login for an email without a record and a login for an email with a
\* record but a password that matches none of its digests get the same answer,
\* 400 "Incorrect email or password", and no token; a token is issued only when
\* a record for the email exists whose digest the password verifies against,
\* and it names that email.
C5_LoginOutcomes ==
    resp.op = "login" =>
        /\ ~HasRecord(resp.email) => (BadCredentials /\ resp.token = NoToken)
        /\ (/\ HasRecord(resp.email)
            /\ \A i \in DOMAIN users :
                  users[i].email = resp.email => users[i].password_hash.pw # resp.password)
              => (BadCredentials /\ resp.token = NoToken)
        /\ resp.token # NoToken =>
              /\ resp.status = 200
              /\ resp.token.sub = resp.email
              /\ \E i \in DOMAIN users :
                    /\ users[i].email = resp.email
                    /\ users[i].password_hash.fmt = "bcrypt"
                    /\ users[i].password_hash.pw = resp.password

C5_Witness ==
    /\ resp.op = "login"
    /\ HasRecord(resp.email)
    /\ BadCredentials
    /\ resp.token = NoToken

\* C6: a login that finds a record whose password_hash is no bcrypt digest ends
\* with 400 "Incorrect email or password".
C6_MalformedDigestIsBadCredentials ==
    (/\ resp.op = "login"
     /\ \E i \in DOMAIN users :
           users[i].email = resp.email /\ users[i].password_hash.fmt # "bcrypt")
        => BadCredentials

\* C7: a login with the email and password of a record that register created
\* and that is still in the store returns a token naming that email, and that
\* token, presented before its exp while a record is there, resolves a user
\* with that email.
C7_RoundTrip ==
    /\ (/\ resp.op = "login"
        /\ \E i \in DOMAIN users :
              users[i].email = resp.email /\ users[i].password_hash.pw = resp.password)
          => (resp.status = 200 /\ resp.token.sub = resp.email)
    /\ (/\ Resolving
        /\ held.tok.kind = "jwt"
        /\ resp.token = held.tok
        /\ ~Expired(held.tok)
        /\ HasRecord(held.tok.sub))
          => (resp.status = 200 /\ resp.email = held.tok.sub)

\* C8 as stated: once the last record under the held token's subject has been
\* removed, every later presentation of the token before its exp is answered
\* 401 "User not found".
C8_Original ==
    (Resolving /\ held.gone /\ resp.token = held.tok /\ ~Expired(held.tok))
        => (resp.status = 401 /\ resp.detail = "User not found")

\* C8 as amended: a correctly signed, unexpired token whose subject has no
\* record in the store at the time it is presented is answered 401 "User not
\* found", and whenever an identity is resolved it is that of a record now in
\* the store under the token's subject.
C8_NoRecordNoIdentity ==
    (Resolving /\ SigOK(resp.token) /\ resp.token.sub # NoSub /\ ~Expired(resp.token)) =>
        /\ ~HasRecord(resp.token.sub) =>
                (resp.status = 401 /\ resp.detail = "User not found")
        /\ resp.status = 200 =>
                \E i \in DOMAIN users :
                    /\ users[i].email = resp.token.sub
                    /\ users[i].id = resp.user_id
                    /\ resp.email = resp.token.sub

C8_Witness ==
    /\ Resolving
    /\ held.gone
    /\ resp.token = held.tok
    /\ ~Expired(held.tok)
    /\ resp.detail = "User not found"

\* C9: a request reaches a handler body only if get_current_user resolved its
\* token to a user then in the store; a document is created only by the body of
\* such a request; a request that get_current_user rejects changes no
\* collection and goes no further.
C9_NoPartialFailure ==
    [][/\ \A w \in Workers :
            (wk'[w].op = "authed" /\ wk[w].op # "authed") =>
                /\ resp'.op = "get_current_user"
                /\ resp'.status = 200
                /\ SigOK(resp'.token)
                /\ \E i \in DOMAIN users :
                      /\ users[i].id = wk'[w].user_id
                      /\ users[i].email = resp'.token.sub
       /\ (itinerary' # itinerary \/ cameraalert' # cameraalert) =>
                \E w \in Workers :
                    /\ wk[w].op = "authed"
                    /\ wk'[w] = Idle
                    /\ resp'.step = "body"
                    /\ resp'.user_id = wk[w].user_id
       /\ (resp'.op = "get_current_user" /\ resp'.status # 200) =>
                UNCHANGED <<users, itinerary, cameraalert, place, nextId, wk>>]_vars

C9_Witness ==
    /\ resp.step = "body"
    /\ resp.status = 200
    /\ Len(itinerary) + Len(cameraalert) > 0

\* C10: apart from an administrator's removal, the user collection changes
\* only in the create step of a register, which appends one record and
\* leaves the others as they were; login and get_current_user write to no
\* collection.
C10_Frame ==
    [][resp'.op # "admin_delete" =>
          /\ users' # users =>
                /\ resp'.op = "register"
                /\ resp'.step = "create"
                /\ resp'.status = 200
                /\ Len(users') = Len(users) + 1
                /\ SubSeq(users', 1, Len(users)) = users
                /\ users'[Len(users')].email = resp'.email
          /\ resp'.op \in {"login", "get_current_user"} =>
                UNCHANGED <<users, itinerary, cameraalert, place, nextId>>]_vars

C10_Witness ==
    /\ resp.op = "login"
    /\ resp.status = 200
    /\ Len(users) > 0
    /\ Len(itinerary) + Len(cameraalert) > 0
=============================================================================
